---- MODULE Spec2Model ----
(***************************************************************************)
(* ESP32 Art-Net vibration motor controller ("Berlin final/motor").        *)
(* The sketch is one polling loop: artnet.read() delivers at most one      *)
(* ArtDMX frame to onDmxFrame, then loop() takes a snapshot of millis(),   *)
(* runs the DMX timeout failsafe, runs the noise/PWM sampler and sleeps    *)
(* for delay(1).  Every global of the sketch is a variable here; the       *)
(* handlers are operators over a record of those globals so that nested    *)
(* calls (onDmxFrame -> setMotorOff -> writePwm) compose as in the code.   *)
(***************************************************************************)
EXTENDS Integers, Sequences, FiniteSets, TLC

\* ------------------------------------------------------------ configuration
ARTNET_UNIVERSE == 0
MOTOR_CHANNEL == 2
SAMPLE_HZ == 40
SAMPLE_INTERVAL_MS == 1000 \div SAMPLE_HZ
DEFAULT_AMPLITUDE == 230
NOISE_STEP_DEFAULT == 20000
DMX_TIMEOUT_MS == 30000
ZERO_FRAMES_TO_OFF == 5
\* SMOOTH_ALPHA = 0.28f, kept as a fraction of 100
SMOOTH_ALPHA_PCT == 28

\* uint8_t holds 0 .. U8 - 1
U8 == 256
\* unsigned long and uint32_t are 32 bits wide.  A value of these types is a
\* residue modulo 2^32; the model names each residue by its representative in
\* -2^31 .. 2^31 - 1 (the same 32 bits read as two's complement), so 2^32 - 30
\* is written -30.
I32Max == 2147483647

\* ------------------------------------------------------------------ bounds
\* loop iterations explored
MaxIter == 8
\* The clock follows one of these environments, chosen at boot: boot is
\* millis() when setup() returns (a negative value is a clock about to wrap)
\* and pace is a periodic timeline.  Entry k of pace is <<lag, delay>> for loop
\* iteration k: lag is the time that passes between artnet.read() and the
\* snapshot `now = millis()`, delay the time from the snapshot to the next
\* artnet.read() (delay(1) and whatever else holds the loop up).
Environments ==
  { [boot |-> 100,    pace |-> << <<0, 1>> >>],
    [boot |-> -30,    pace |-> << <<0, 24>>, <<0, 1>> >>],
    [boot |-> -40000, pace |-> << <<0, 29975>>, <<0, 24>>, <<0, 1>> >>],
    [boot |-> 2000,   pace |-> << <<1, 29999>> >>] }
\* For the link-loss runs: accepted frames arrive during the first LiveIter
\* loop iterations only, the loop is followed for LiveTail iterations more, and
\* the clock follows one of the coarse environments (every one of them passes
\* DMX_TIMEOUT_MS within LiveTail iterations).
LiveIter == 3
LiveTail == 4
LiveEnvironments ==
  { [boot |-> -20000, pace |-> << <<0, 10000>> >>],
    [boot |-> -40000, pace |-> << <<0, 29975>>, <<0, 24>>, <<0, 1>> >>],
    [boot |-> 2000,   pace |-> << <<1, 29999>> >>] }
\* frames the transport can deliver
Universes == {0, 1}
Lengths == {1, 2}
Values == {0, 5, 255}
\* values inoise8() returns, values random() returns (-7 is 2^32 - 7)
NoiseVals == {0, 255}
Seeds == {-7, I32Max}

\* --------------------------------------------------------------- variables
VARIABLES
  motorRunning,      \* bool motorRunning
  currentPwm,        \* int currentPwm
  lastDmxMillis,     \* unsigned long lastDmxMillis
  lastSampleMillis,  \* unsigned long lastSampleMillis
  motorLevel,        \* uint8_t motorLevel
  noisePos,          \* uint32_t noisePos
  zeroFrameCount,    \* uint8_t zeroFrameCount
  pwmOut,            \* duty last given to ledcWrite(PWM_PIN, ..)
  clock,             \* what millis() returns
  timeline,          \* how the clock advances (fixed at boot)
  now,               \* loop()'s local snapshot of millis()
  pc,                \* position in loop()
  iter,              \* loop iterations completed
  ev,                \* what the last step did (frame delivered, calls made)
  zeroRun,           \* accepted zero frames since the last accepted nonzero frame
  scn,               \* prefix of ScenarioB matched by the frames since the start
  gh,                \* times of the last start / sampler write, stop in this iteration
  lastCmdMillis,     \* unsigned long lastCmdMillis (the UDP command sketch)
  calc               \* a pure function under evaluation: inputs and result

prog == <<motorRunning, currentPwm, lastDmxMillis, lastSampleMillis,
          motorLevel, noisePos, zeroFrameCount, pwmOut>>
vars == <<motorRunning, currentPwm, lastDmxMillis, lastSampleMillis,
          motorLevel, noisePos, zeroFrameCount, pwmOut,
          clock, timeline, now, pc, iter, ev, zeroRun, scn,
          gh, lastCmdMillis, calc>>

\* what the motor sketch's steps never touch
other == <<lastCmdMillis, calc>>

\* <<lag, delay>> of the current loop iteration
Pace == timeline[(iter % Len(timeline)) + 1]

\* --------------------------------------------------------- pure arithmetic
\* a + b modulo 2^32
UAdd(a, b) ==
  IF b >= 0 /\ a > I32Max - b THEN (a - I32Max - 1) + (b - I32Max - 1)
  ELSE IF b < 0 /\ a < (-I32Max - 1) - b THEN (a + I32Max + 1) + (b + I32Max + 1)
  ELSE a + b

\* a - b modulo 2^32
USub(a, b) ==
  IF b < 0 /\ a > I32Max + b THEN (a - I32Max - 1) - (b + I32Max + 1)
  ELSE IF b > 0 /\ a < (-I32Max - 1) + b THEN (a + I32Max + 1) - (b - I32Max - 1)
  ELSE a - b

\* the unsigned comparison x >= k, for a constant 0 <= k < 2^31
UGe(x, k) == x < 0 \/ x >= k

\* constrain(x, lo, hi)
constrain(x, lo, hi) == IF x < lo THEN lo ELSE IF x > hi THEN hi ELSE x

\* C integer division, truncating toward zero
CDiv(a, b) == IF a >= 0 THEN a \div b ELSE -((-a) \div b)

\* a map() that rounds to nearest: (delta * rise + run / 2) / run + out_min
map_Rounding(x, in_min, in_max, out_min, out_max) ==
  CDiv((x - in_min) * (out_max - out_min) + CDiv(in_max - in_min, 2),
       in_max - in_min) + out_min

\* long map(long x, long in_min, long in_max, long out_min, long out_max)
map(x, in_min, in_max, out_min, out_max) ==
  CDiv((x - in_min) * (out_max - out_min), in_max - in_min) + out_min

\* an amplitude that is the level itself, not scaled to DEFAULT_AMPLITUDE
EffectiveAmp_Unscaled(level) == level % U8

\* uint8_t effectiveAmp = map(motorLevel, 0, 255, 0, DEFAULT_AMPLITUDE)
EffectiveAmp(level) == map(level, 0, 255, 0, DEFAULT_AMPLITUDE) % U8

\* a target that rounds to nearest: (noiseVal * amp + 127) / 255
Target_Rounding(noiseVal, amp) == (noiseVal * amp + 127) \div 255

\* int target = (int)((noiseVal * (uint16_t)effectiveAmp) / 255)
Target(noiseVal, amp) == (noiseVal * amp) \div 255

\* the smoothing without the (1.0f - SMOOTH_ALPHA) weight on currentPwm
Smoothed_NoDecay(target, cur) ==
  (SMOOTH_ALPHA_PCT * target + 100 * cur + 50) \div 100

\* (int)round(SMOOTH_ALPHA * target + (1.0f - SMOOTH_ALPHA) * currentPwm)
\* 28*t + 72*c is a multiple of 4, so the exact sum is never within 0.02 of
\* a half and the float evaluation rounds to the same integer.
Smoothed(target, cur) ==
  (SMOOTH_ALPHA_PCT * target + (100 - SMOOTH_ALPHA_PCT) * cur + 50) \div 100

\* --------------------------------------------------- the globals as a record
\* The program's globals, plus counters of the calls made during one step.
Globals ==
  [motorRunning |-> motorRunning, currentPwm |-> currentPwm,
   lastDmxMillis |-> lastDmxMillis, lastSampleMillis |-> lastSampleMillis,
   motorLevel |-> motorLevel, noisePos |-> noisePos,
   zeroFrameCount |-> zeroFrameCount, pwmOut |-> pwmOut,
   writes |-> 0, offs |-> 0, starts |-> 0, zInc |-> 0, lvlSet |-> 0,
   zPeak |-> zeroFrameCount]

\* void writePwm(int val)
writePwm(s, val) ==
  LET v == constrain(val, 0, 255)
  IN  [s EXCEPT !.currentPwm = v, !.pwmOut = v, !.writes = @ + 1]

\* setMotorOff without the writePwm(0) call
setMotorOff_NoWrite(s) ==
  [s EXCEPT !.motorRunning = FALSE, !.motorLevel = 0,
            !.lvlSet = @ + 1, !.offs = @ + 1]

\* setMotorOff without `motorLevel = 0`
setMotorOff_KeepsLevel(s) ==
  writePwm([s EXCEPT !.motorRunning = FALSE, !.offs = @ + 1], 0)

\* void setMotorOff()
setMotorOff(s) ==
  LET s1 == [s EXCEPT !.motorRunning = FALSE, !.motorLevel = 0,
                      !.lvlSet = @ + 1, !.offs = @ + 1]
  IN  writePwm(s1, 0)

\* startMotor without `lastSampleMillis = millis()`
startMotor_NoSampleReset(s, t, seed) ==
  [s EXCEPT !.motorRunning = TRUE, !.noisePos = seed, !.starts = @ + 1]

\* void startMotor()
startMotor(s, t, seed) ==
  [s EXCEPT !.motorRunning = TRUE, !.noisePos = seed,
            !.lastSampleMillis = t, !.starts = @ + 1]

\* Accepts without the universe test
Accepts_AnyUniverse(universe, length) ==
  ~(MOTOR_CHANNEL < 1 \/ MOTOR_CHANNEL > length)

\* the two early returns of onDmxFrame
Accepts(universe, length) ==
  ~(universe # ARTNET_UNIVERSE) /\ ~(MOTOR_CHANNEL < 1 \/ MOTOR_CHANNEL > length)

\* onZeroFrame with `>` for `>=` in the threshold test
onZeroFrame_Late(s) ==
  LET s1 == [s EXCEPT !.zeroFrameCount = (@ + 1) % U8, !.zInc = @ + 1,
                      !.zPeak = (s.zeroFrameCount + 1) % U8]
  IN  IF s1.zeroFrameCount > ZERO_FRAMES_TO_OFF
      THEN LET s2 == IF s1.motorRunning THEN setMotorOff(s1) ELSE s1
           IN  [s2 EXCEPT !.zeroFrameCount = 0]
      ELSE s1

\* onZeroFrame with the counter reset moved into the motorRunning branch
onZeroFrame_NoResetWhenOff(s) ==
  LET s1 == [s EXCEPT !.zeroFrameCount = (@ + 1) % U8, !.zInc = @ + 1,
                      !.zPeak = (s.zeroFrameCount + 1) % U8]
  IN  IF s1.zeroFrameCount >= ZERO_FRAMES_TO_OFF
      THEN IF s1.motorRunning
           THEN [setMotorOff(s1) EXCEPT !.zeroFrameCount = 0]
           ELSE s1
      ELSE s1

\* onZeroFrame that writes duty 0 on every zero frame
onZeroFrame_Flicker(s) ==
  LET s1 == [s EXCEPT !.zeroFrameCount = (@ + 1) % U8, !.zInc = @ + 1,
                      !.zPeak = (s.zeroFrameCount + 1) % U8]
  IN  IF s1.zeroFrameCount >= ZERO_FRAMES_TO_OFF
      THEN LET s2 == IF s1.motorRunning THEN setMotorOff(s1) ELSE s1
           IN  [s2 EXCEPT !.zeroFrameCount = 0]
      ELSE writePwm(s1, 0)

\* onDmxFrame, val == 0
onZeroFrame(s) ==
  LET s1 == [s EXCEPT !.zeroFrameCount = (@ + 1) % U8, !.zInc = @ + 1,
                      !.zPeak = (s.zeroFrameCount + 1) % U8]
  IN  IF s1.zeroFrameCount >= ZERO_FRAMES_TO_OFF
      THEN LET s2 == IF s1.motorRunning THEN setMotorOff(s1) ELSE s1
           IN  [s2 EXCEPT !.zeroFrameCount = 0]
      ELSE s1

\* onNonzeroFrame without `motorLevel = val`
onNonzeroFrame_NoLevel(s, val, t, seed) ==
  LET s1 == [s EXCEPT !.zeroFrameCount = 0]
  IN  IF ~s1.motorRunning THEN startMotor(s1, t, seed) ELSE s1

\* onNonzeroFrame that calls startMotor() whether or not the motor runs
onNonzeroFrame_AlwaysStart(s, val, t, seed) ==
  startMotor([s EXCEPT !.zeroFrameCount = 0, !.motorLevel = val,
                       !.lvlSet = @ + 1], t, seed)

\* onDmxFrame, val > 0
onNonzeroFrame(s, val, t, seed) ==
  LET s1 == [s EXCEPT !.zeroFrameCount = 0, !.motorLevel = val,
                      !.lvlSet = @ + 1]
  IN  IF ~s1.motorRunning THEN startMotor(s1, t, seed) ELSE s1

\* onDmxFrame that starts the motor before it looks at val
onDmxFrame_StartFirst(s, universe, length, val, t, seed) ==
  IF ~Accepts(universe, length) THEN s
  ELSE LET s0 == [s EXCEPT !.lastDmxMillis = t]
           s1 == IF ~s0.motorRunning THEN startMotor(s0, t, seed) ELSE s0
       IN  IF val = 0 THEN onZeroFrame(s1)
           ELSE [s1 EXCEPT !.zeroFrameCount = 0, !.motorLevel = val,
                           !.lvlSet = @ + 1]

\* void onDmxFrame(universe, length, sequence, data); val is
\* data[MOTOR_CHANNEL - 1], t is millis(), seed is what random() returns
onDmxFrame(s, universe, length, val, t, seed) ==
  IF ~Accepts(universe, length) THEN s
  ELSE LET s1 == [s EXCEPT !.lastDmxMillis = t]
       IN  IF val = 0 THEN onZeroFrame(s1)
           ELSE onNonzeroFrame(s1, val, t, seed)

\* WatchdogDue that measures from the last sample instead of the last frame
WatchdogDue_SinceSample(s, t) ==
  s.motorRunning /\ UGe(USub(t, s.lastSampleMillis), DMX_TIMEOUT_MS)

\* WatchdogDue with `>` for `>=`
WatchdogDue_WhenStopped(s, t) ==
  UGe(USub(t, s.lastDmxMillis), DMX_TIMEOUT_MS)

\* the DMX timeout test with > in place of >=
WatchdogDue_Late(s, t) ==
  s.motorRunning /\ UGe(USub(t, s.lastDmxMillis), DMX_TIMEOUT_MS + 1)

\* loop(): global DMX timeout failsafe
WatchdogDue(s, t) ==
  s.motorRunning /\ UGe(USub(t, s.lastDmxMillis), DMX_TIMEOUT_MS)

watchdog(s, t) ==
  IF WatchdogDue(s, t)
  THEN [setMotorOff(s) EXCEPT !.zeroFrameCount = 0]
  ELSE s

\* the sample test without `motorRunning &&`
SampleDue_WhenStopped(s, t) ==
  UGe(USub(t, s.lastSampleMillis), SAMPLE_INTERVAL_MS)

\* loop(): noise / PWM update
SampleDue(s, t) ==
  s.motorRunning /\ UGe(USub(t, s.lastSampleMillis), SAMPLE_INTERVAL_MS)

\* sampler that stores the scaled amplitude back into motorLevel
sampler_ScalesLevel(s, t, noiseVal) ==
  IF SampleDue(s, t)
  THEN LET s1 == [s EXCEPT !.noisePos = UAdd(@, NOISE_STEP_DEFAULT),
                           !.motorLevel = EffectiveAmp(@)]
           target == Target(noiseVal, s1.motorLevel)
           smoothed == Smoothed(target, s1.currentPwm)
       IN  [writePwm(s1, smoothed) EXCEPT !.lastSampleMillis = t]
  ELSE s

sampler(s, t, noiseVal) ==
  IF SampleDue(s, t)
  THEN LET s1 == [s EXCEPT !.noisePos = UAdd(@, NOISE_STEP_DEFAULT)]
           effectiveAmp == EffectiveAmp(s1.motorLevel)
           target == Target(noiseVal, effectiveAmp)
           smoothed == Smoothed(target, s1.currentPwm)
       IN  [writePwm(s1, smoothed) EXCEPT !.lastSampleMillis = t]
  ELSE s

\* ------------------------------------------------------------------ actions
Commit(s) ==
  /\ motorRunning' = s.motorRunning
  /\ currentPwm' = s.currentPwm
  /\ lastDmxMillis' = s.lastDmxMillis
  /\ lastSampleMillis' = s.lastSampleMillis
  /\ motorLevel' = s.motorLevel
  /\ noisePos' = s.noisePos
  /\ zeroFrameCount' = s.zeroFrameCount
  /\ pwmOut' = s.pwmOut

NoFrame == [got |-> FALSE, universe |-> 0, length |-> 0, val |-> 0]

\* The ArtDMX packets the transport can deliver; val is data[MOTOR_CHANNEL - 1],
\* which a packet shorter than MOTOR_CHANNEL does not carry (written 0).
Frames ==
  { [got |-> TRUE, universe |-> u, length |-> l, val |-> v] :
      u \in Universes, l \in Lengths, v \in Values }
  \ { f \in [got : {TRUE}, universe : Universes, length : Lengths, val : Values] :
        f.length < MOTOR_CHANNEL /\ f.val # 0 }

Event(step, frame, s, due) ==
  [step |-> step, frame |-> frame, due |-> due,
   writes |-> s.writes, offs |-> s.offs, starts |-> s.starts,
   zInc |-> s.zInc, lvlSet |-> s.lvlSet, zPeak |-> s.zPeak,
   zfcPre |-> zeroFrameCount, pwmPre |-> currentPwm]

\* the frame is on the configured universe and long enough to carry the channel
ForUs(frame) ==
  frame.got /\ frame.universe = ARTNET_UNIVERSE /\ frame.length >= MOTOR_CHANNEL

\* the frame sequence of the spec's scenario B
ScenarioB == <<0, 0, 5, 0, 0, 0, 0, 0>>

\* scn after an accepted frame with value val; s is the state after it
NextScn(val, s) ==
  IF s.starts > 0 THEN 0
  ELSE IF scn >= 0 /\ scn < Len(ScenarioB) /\ ScenarioB[scn + 1] = val
       THEN scn + 1
       ELSE -1

\* no start, no sampler write and no stop seen yet; tCmd is the time of the
\* last single-byte command packet (UDP command sketch)
NoHistory ==
  [fresh |-> FALSE, tStart |-> 0, wrote |-> FALSE, tWrite |-> 0,
   stopIter |-> FALSE, tCmd |-> 0]

\* no pure function under evaluation
NoCalc == [fn |-> "none", x |-> 0, y |-> 0, out |-> 0, done |-> FALSE]

\* setup() has returned; the clock follows an environment of E
InitIn(E) ==
  /\ motorRunning = FALSE
  /\ currentPwm = 0
  /\ lastDmxMillis = 0
  /\ lastSampleMillis = 0
  /\ motorLevel = 0
  /\ noisePos = 0
  /\ zeroFrameCount = 0
  /\ pwmOut = 0
  /\ \E e \in E : clock = e.boot /\ timeline = e.pace
  /\ now = 0
  /\ pc = "read"
  /\ iter = 0
  /\ ev = Event("init", NoFrame, Globals, FALSE)
  /\ zeroRun = 0
  /\ scn = -1
  /\ gh = NoHistory
  /\ lastCmdMillis = 0
  /\ calc = NoCalc

Init == InitIn(Environments)

\* artnet.read() finds no packet
ReadNothing ==
  /\ pc = "read"
  /\ pc' = "watchdog"
  /\ ev' = Event("read", NoFrame, Globals, FALSE)
  /\ UNCHANGED <<prog, clock, timeline, now, iter, zeroRun, scn, gh, other>>

\* artnet.read() parses one ArtDMX packet and calls onDmxFrame; packets for
\* this motor arrive during the first h loop iterations only
ReadFrameWhile(h) ==
  /\ pc = "read"
  /\ \E frame \in Frames, seed \in Seeds :
       LET s == onDmxFrame(Globals, frame.universe, frame.length, frame.val,
                           clock, seed)
       IN  /\ iter < h \/ ~ForUs(frame)
           /\ Commit(s)
           /\ ev' = Event("read", frame, s, FALSE)
           /\ zeroRun' = IF ~ForUs(frame) THEN zeroRun
                         ELSE IF frame.val = 0 THEN zeroRun + 1 ELSE 0
           /\ scn' = IF ForUs(frame) THEN NextScn(frame.val, s) ELSE scn
           /\ gh' = [gh EXCEPT
                      !.fresh = IF s.starts > 0 THEN TRUE
                                ELSE IF s.offs > 0 THEN FALSE ELSE @,
                      !.tStart = IF s.starts > 0 THEN clock
                                 ELSE IF s.offs > 0 THEN 0 ELSE @,
                      !.stopIter = s.offs > 0]
  /\ pc' = "watchdog"
  /\ UNCHANGED <<clock, timeline, now, iter, other>>

ReadFrame == ReadFrameWhile(MaxIter + 1)

\* unsigned long now = millis(); then the DMX timeout failsafe
Watchdog ==
  /\ pc = "watchdog"
  /\ LET t == UAdd(clock, Pace[1])
           s == watchdog(Globals, t)
       IN  /\ clock' = t
           /\ now' = t
           /\ Commit(s)
           /\ ev' = Event("watchdog", NoFrame, s, WatchdogDue(Globals, t))
           /\ scn' = IF s.offs > 0 THEN -1 ELSE scn
           /\ gh' = [gh EXCEPT
                      !.fresh = IF s.offs > 0 THEN FALSE ELSE @,
                      !.tStart = IF s.offs > 0 THEN 0 ELSE @,
                      !.stopIter = @ \/ s.offs > 0]
  /\ pc' = "sample"
  /\ UNCHANGED <<timeline, iter, zeroRun, other>>

\* the noise / PWM update
Sample ==
  /\ pc = "sample"
  /\ \E noiseVal \in NoiseVals :
       LET s == sampler(Globals, now, noiseVal)
       IN  /\ Commit(s)
           /\ ev' = Event("sample", NoFrame, s, SampleDue(Globals, now))
           /\ gh' = IF s.writes > 0
                     THEN [gh EXCEPT !.fresh = FALSE, !.tStart = 0,
                                     !.wrote = TRUE, !.tWrite = now]
                     ELSE gh
  /\ pc' = "delay"
  /\ UNCHANGED <<clock, timeline, now, iter, zeroRun, scn, other>>

\* delay(1) and the return to the top of loop(), for at most h iterations
DelayUpTo(h) ==
  /\ pc = "delay"
  /\ iter < h
  /\ clock' = UAdd(clock, Pace[2])
  /\ pc' = "read"
  /\ iter' = iter + 1
  /\ ev' = Event("delay", NoFrame, Globals, FALSE)
  /\ gh' = [gh EXCEPT !.stopIter = FALSE]
  /\ UNCHANGED <<prog, timeline, now, zeroRun, scn, other>>

Delay == DelayUpTo(MaxIter)

Next == ReadNothing \/ ReadFrame \/ Watchdog \/ Sample \/ Delay

Spec == Init /\ [][Next]_vars

\* The link-loss runs: the loop keeps iterating (weak fairness of the loop's
\* steps), every iteration advances the clock, and accepted frames stop after
\* LiveIter iterations.
LiveInit == InitIn(LiveEnvironments)

LiveReadFrame == ReadFrameWhile(LiveIter)

LiveDelay == DelayUpTo(LiveIter + LiveTail)

LiveNext == ReadNothing \/ LiveReadFrame \/ Watchdog \/ Sample \/ LiveDelay

LiveSpec == LiveInit /\ [][LiveNext]_vars /\ WF_vars(LiveNext)

\* ------------------------------------------- the sampler's arithmetic alone
\* The expressions of the sampler (loop, lines 208-218) applied to every input
\* of their type.  The sketch itself is idle: only `calc` changes.
Bench ==
  /\ motorRunning = FALSE
  /\ currentPwm = 0
  /\ lastDmxMillis = 0
  /\ lastSampleMillis = 0
  /\ motorLevel = 0
  /\ noisePos = 0
  /\ zeroFrameCount = 0
  /\ pwmOut = 0
  /\ clock = 0
  /\ timeline = <<<<0, 1>>>>
  /\ now = 0
  /\ pc = "calc"
  /\ iter = 0
  /\ ev = Event("init", NoFrame, Globals, FALSE)
  /\ zeroRun = 0
  /\ scn = -1
  /\ gh = NoHistory
  /\ lastCmdMillis = 0

benchVars ==
  <<prog, clock, timeline, now, pc, iter, ev, zeroRun, scn, gh, lastCmdMillis>>

Bytes == 0 .. U8 - 1

\* smooth: x = target, y = currentPwm;  amp: x = motorLevel;
\* target: x = noiseVal, y = effectiveAmp
CalcInputs ==
       [fn : {"smooth"}, x : Bytes, y : Bytes, out : {0}, done : {FALSE}]
  \cup [fn : {"amp"}, x : Bytes, y : {0}, out : {0}, done : {FALSE}]
  \cup [fn : {"target"}, x : Bytes, y : 0 .. DEFAULT_AMPLITUDE, out : {0}, done : {FALSE}]

CalcInit == Bench /\ calc \in CalcInputs

\* smoothed = round(...); writePwm(smoothed)
ApplySmooth ==
  /\ calc.fn = "smooth" /\ ~calc.done
  /\ LET s == [Globals EXCEPT !.currentPwm = calc.y]
     IN  calc' = [calc EXCEPT
                    !.out = writePwm(s, Smoothed(calc.x, s.currentPwm)).pwmOut,
                    !.done = TRUE]
  /\ UNCHANGED benchVars

\* effectiveAmp = map(motorLevel, 0, 255, 0, DEFAULT_AMPLITUDE)
ApplyAmp ==
  /\ calc.fn = "amp" /\ ~calc.done
  /\ calc' = [calc EXCEPT !.out = EffectiveAmp(calc.x), !.done = TRUE]
  /\ UNCHANGED benchVars

\* target = (noiseVal * effectiveAmp) / 255
ApplyTarget ==
  /\ calc.fn = "target" /\ ~calc.done
  /\ calc' = [calc EXCEPT !.out = Target(calc.x, calc.y), !.done = TRUE]
  /\ UNCHANGED benchVars

CalcNext == ApplySmooth \/ ApplyAmp \/ ApplyTarget

CalcSpec == CalcInit /\ [][CalcNext]_vars

\* --------------------------------------------- the duty from tick to tick
\* The duty after a sampler tick depends only on the duty before it, the
\* level and the noise value.  Starting from duty 0 (setup, setMotorOff), any
\* number of ticks with any level and any noise value, and stops in between:
\* calc.out is the duty written last.
Targets ==
  {Target(noiseVal, EffectiveAmp(level)) : noiseVal \in Bytes, level \in Bytes}

DutyInit ==
  /\ Bench
  /\ calc = [fn |-> "duty", x |-> 0, y |-> 0, out |-> 0, done |-> TRUE]

DutySample ==
  /\ calc.fn = "duty"
  /\ \E target \in Targets :
       LET s == [Globals EXCEPT !.currentPwm = calc.out]
       IN  calc' = [calc EXCEPT
                      !.out = writePwm(s, Smoothed(target, s.currentPwm)).pwmOut]
  /\ UNCHANGED benchVars

DutyStop ==
  /\ calc.fn = "duty"
  /\ LET s == [Globals EXCEPT !.currentPwm = calc.out]
     IN  calc' = [calc EXCEPT !.out = setMotorOff(s).pwmOut]
  /\ UNCHANGED benchVars

DutyNext == DutySample \/ DutyStop

DutySpec == DutyInit /\ [][DutyNext]_vars

\* ------------------------------------------------- the UDP command sketch
\* src/unnamed/part_000, lines 1-173: the same motor started and stopped by
\* single-byte UDP packets.  Its globals motorRunning, currentPwm,
\* lastSampleMillis and noisePos are the variables of the same name;
\* lastDmxMillis, motorLevel and zeroFrameCount do not exist in it.
SIZEOF_UDPBUF == 256
UDP_DEFAULT_AMPLITUDE == 200
UDP_NOISE_STEP_DEFAULT == 2000
UDP_SMOOTH_ALPHA_PCT == 18
TIMEOUT_MS == 30000

\* '1', 0x01, '0', 0x00 and '?'
CmdBytes == {49, 1, 48, 0, 63}

\* what Udp.parsePacket() can announce: size is its return value, b the first
\* byte of the packet
NoPacket == [size |-> 0, b |-> 0]

Packets ==
       {[size |-> 1, b |-> b] : b \in CmdBytes}
  \cup {[size |-> n, b |-> 49] : n \in {2, SIZEOF_UDPBUF + 1}}

UdpGlobals ==
  [motorRunning |-> motorRunning, currentPwm |-> currentPwm,
   lastCmdMillis |-> lastCmdMillis, lastSampleMillis |-> lastSampleMillis,
   noisePos |-> noisePos, pwmOut |-> pwmOut,
   writes |-> 0, offs |-> 0, starts |-> 0]

udp_writePwm(s, val) ==
  LET v == constrain(val, 0, 255)
  IN  [s EXCEPT !.currentPwm = v, !.pwmOut = v, !.writes = @ + 1]

udp_setMotorOff(s) ==
  udp_writePwm([s EXCEPT !.motorRunning = FALSE, !.offs = @ + 1], 0)

udp_startMotor(s, t, seed) ==
  [s EXCEPT !.motorRunning = TRUE, !.noisePos = seed,
            !.lastSampleMillis = t, !.lastCmdMillis = t, !.starts = @ + 1]

handleSimpleCmd(s, b, len, t, seed) ==
  IF len < 1 THEN s
  ELSE IF b = 49 \/ b = 1 THEN udp_startMotor(s, t, seed)
  ELSE IF b = 48 \/ b = 0 THEN udp_setMotorOff(s)
  ELSE s

\* the packet block with `lastCmdMillis = millis()` after the if / else
udp_onPacket_RefreshAlways(s, pkt, t, seed) ==
  LET packetSize == IF pkt.size > SIZEOF_UDPBUF THEN SIZEOF_UDPBUF ELSE pkt.size
      s1 == IF packetSize = 1
            THEN handleSimpleCmd(s, pkt.b, packetSize, t, seed) ELSE s
  IN  IF pkt.size > 0 THEN [s1 EXCEPT !.lastCmdMillis = t] ELSE s

\* loop: if (packetSize > 0) { ... }
udp_onPacket(s, pkt, t, seed) ==
  IF pkt.size > 0
  THEN LET packetSize ==
             IF pkt.size > SIZEOF_UDPBUF THEN SIZEOF_UDPBUF ELSE pkt.size
       IN  IF packetSize = 1
           THEN [handleSimpleCmd(s, pkt.b, packetSize, t, seed)
                   EXCEPT !.lastCmdMillis = t]
           ELSE s
  ELSE s

udp_WatchdogDue(s, t) ==
  s.motorRunning /\ UGe(USub(t, s.lastCmdMillis), TIMEOUT_MS)

udp_watchdog(s, t) == IF udp_WatchdogDue(s, t) THEN udp_setMotorOff(s) ELSE s

udp_SampleDue(s, t) ==
  s.motorRunning /\ UGe(USub(t, s.lastSampleMillis), SAMPLE_INTERVAL_MS)

\* (int)((noiseVal / 255.0f) * (float)DEFAULT_AMPLITUDE): for every noiseVal in
\* 0..255 the float product truncates to the same integer as the exact one
udp_Target(noiseVal) == (noiseVal * UDP_DEFAULT_AMPLITUDE) \div 255

\* (int)round(SMOOTH_ALPHA * target + (1.0f - SMOOTH_ALPHA) * currentPwm) with
\* SMOOTH_ALPHA = 0.18f.  Where the exact sum ends in .5 the float result falls
\* on either side of the half, depending on whether the compiler fuses the
\* multiply and the add: both roundings are outcomes.
udp_Smoothed(target, cur) ==
  LET e == UDP_SMOOTH_ALPHA_PCT * target + (100 - UDP_SMOOTH_ALPHA_PCT) * cur
  IN  IF e % 100 = 50 THEN {e \div 100, e \div 100 + 1}
      ELSE {(e + 50) \div 100}

\* loop: sample noise if running; the set of outcomes
udp_sampler(s, t, noiseVal) ==
  IF udp_SampleDue(s, t)
  THEN LET s1 == [s EXCEPT !.noisePos = UAdd(@, UDP_NOISE_STEP_DEFAULT)]
       IN  {[udp_writePwm(s1, smoothed) EXCEPT !.lastSampleMillis = t] :
              smoothed \in udp_Smoothed(udp_Target(noiseVal), s1.currentPwm)}
  ELSE {s}

UdpCommit(s) ==
  /\ motorRunning' = s.motorRunning
  /\ currentPwm' = s.currentPwm
  /\ lastCmdMillis' = s.lastCmdMillis
  /\ lastSampleMillis' = s.lastSampleMillis
  /\ noisePos' = s.noisePos
  /\ pwmOut' = s.pwmOut

UdpEvent(step, pkt, s) ==
  [step |-> step, pkt |-> pkt,
   writes |-> s.writes, offs |-> s.offs, starts |-> s.starts,
   runPre |-> motorRunning]

\* what the UDP sketch never touches
udpOther == <<lastDmxMillis, motorLevel, zeroFrameCount, zeroRun, scn, calc>>

UdpInit ==
  /\ motorRunning = FALSE
  /\ currentPwm = 0
  /\ lastCmdMillis = 0
  /\ lastSampleMillis = 0
  /\ noisePos = 0
  /\ pwmOut = 0
  /\ \E e \in Environments : clock = e.boot /\ timeline = e.pace
  /\ now = 0
  /\ pc = "read"
  /\ iter = 0
  /\ ev = UdpEvent("init", NoPacket, UdpGlobals)
  /\ gh = NoHistory
  /\ lastDmxMillis = 0
  /\ motorLevel = 0
  /\ zeroFrameCount = 0
  /\ zeroRun = 0
  /\ scn = -1
  /\ calc = NoCalc

\* Udp.parsePacket() returns 0
UdpReadNothing ==
  /\ pc = "read"
  /\ pc' = "watchdog"
  /\ ev' = UdpEvent("read", NoPacket, UdpGlobals)
  /\ UNCHANGED <<motorRunning, currentPwm, lastCmdMillis, lastSampleMillis,
                 noisePos, pwmOut, clock, timeline, now, iter, gh, udpOther>>

\* Udp.parsePacket() announces a packet
UdpReadPacket ==
  /\ pc = "read"
  /\ \E pkt \in Packets, seed \in Seeds :
       LET s == udp_onPacket(UdpGlobals, pkt, clock, seed)
       IN  /\ UdpCommit(s)
           /\ ev' = UdpEvent("read", pkt, s)
           /\ gh' = IF pkt.size = 1 THEN [gh EXCEPT !.tCmd = clock] ELSE gh
  /\ pc' = "watchdog"
  /\ UNCHANGED <<clock, timeline, now, iter, udpOther>>

\* unsigned long now = millis(); then the watchdog timeout
UdpWatchdog ==
  /\ pc = "watchdog"
  /\ LET t == UAdd(clock, Pace[1])
         s == udp_watchdog(UdpGlobals, t)
     IN  /\ clock' = t
         /\ now' = t
         /\ UdpCommit(s)
         /\ ev' = UdpEvent("watchdog", NoPacket, s)
  /\ pc' = "sample"
  /\ UNCHANGED <<timeline, iter, gh, udpOther>>

UdpSample ==
  /\ pc = "sample"
  /\ \E noiseVal \in NoiseVals :
       \E s \in udp_sampler(UdpGlobals, now, noiseVal) :
         /\ UdpCommit(s)
         /\ ev' = UdpEvent("sample", NoPacket, s)
  /\ pc' = "delay"
  /\ UNCHANGED <<clock, timeline, now, iter, gh, udpOther>>

UdpDelay ==
  /\ pc = "delay"
  /\ iter < MaxIter
  /\ clock' = UAdd(clock, Pace[2])
  /\ pc' = "read"
  /\ iter' = iter + 1
  /\ ev' = UdpEvent("delay", NoPacket, UdpGlobals)
  /\ UNCHANGED <<motorRunning, currentPwm, lastCmdMillis, lastSampleMillis,
                 noisePos, pwmOut, timeline, now, gh, udpOther>>

UdpNext ==
  UdpReadNothing \/ UdpReadPacket \/ UdpWatchdog \/ UdpSample \/ UdpDelay

UdpSpec == UdpInit /\ [][UdpNext]_vars

\* ------------------------------------------------------------------- claims
\* a step of artnet.read() that delivered an accepted frame
AcceptedStep == pc = "read" /\ ForUs(ev'.frame)

\* the unsigned test `now - lastDmxMillis >= DMX_TIMEOUT_MS` on the snapshot t
TimedOut(t) == UGe(USub(t, lastDmxMillis), DMX_TIMEOUT_MS)

\* C1: a frame stops the motor exactly when the motor is running and the frame
\* is the accepted zero frame that completes a run of ZERO_FRAMES_TO_OFF
\* consecutive accepted zero frames since the last accepted nonzero frame, and
\* then setMotorOff runs once; along the frames 0,0,5,0,0,0,0,0 received after
\* the start the motor runs through the 7th frame and is off after the 8th.
C1_DebouncedStop ==
  /\ [](scn \in 0 .. Len(ScenarioB) - 1 => motorRunning)
  /\ [](scn = Len(ScenarioB) => ~motorRunning)
  /\ [][pc = "read" =>
         LET completes == /\ motorRunning
                          /\ ForUs(ev'.frame)
                          /\ ev'.frame.val = 0
                          /\ zeroRun' = ZERO_FRAMES_TO_OFF
         IN  /\ (motorRunning /\ ~motorRunning') <=> completes
             /\ ev'.offs = IF completes THEN 1 ELSE 0]_vars

C1_Witness ==
  /\ scn = Len(ScenarioB)
  /\ ~motorRunning
  /\ ev.step = "read" /\ ev.offs = 1

\* C2: when the watchdog check and the sampler of an iteration are done, a
\* running motor has now - lastDmxMillis < DMX_TIMEOUT_MS; and a watchdog check
\* that finds the motor running with now - lastDmxMillis >= DMX_TIMEOUT_MS
\* stops it (running false, level 0, duty 0 written) and clears zeroFrameCount.
C2_WatchdogSafety ==
  /\ [](pc \in {"sample", "delay"} /\ motorRunning => ~TimedOut(now))
  /\ [][pc = "watchdog" /\ motorRunning /\ TimedOut(now') =>
         /\ ~motorRunning'
         /\ motorLevel' = 0
         /\ currentPwm' = 0 /\ pwmOut' = 0 /\ ev'.writes = 1
         /\ zeroFrameCount' = 0]_vars

C2_Witness ==
  /\ ev.step = "watchdog" /\ ev.offs = 1
  /\ ev.zfcPre = ZERO_FRAMES_TO_OFF - 1
  /\ ~motorRunning /\ zeroFrameCount = 0

\* C3: in the link-loss runs, a motor that is running when the accepted frames
\* have stopped is eventually off with duty 0 written, whatever the last level
\* was; and an off motor stays off until an accepted frame with v > 0.
C3_LinkLossStops ==
  /\ (motorRunning /\ iter >= LiveIter) ~> (~motorRunning /\ pwmOut = 0)
  /\ [][~motorRunning /\ motorRunning' => AcceptedStep /\ ev'.frame.val > 0]_vars

\* the watchdog has stopped a motor that was being driven after the frames ended
C3_Witness ==
  /\ iter >= LiveIter
  /\ ev.step = "watchdog" /\ ev.offs = 1 /\ ev.pwmPre > 0
  /\ ~motorRunning /\ pwmOut = 0

\* C4: a frame on another universe, or shorter than MOTOR_CHANNEL, changes no
\* global of the sketch (running, level, duty, zeroFrameCount, both timestamps,
\* noise position) and writes nothing to the output.
C4_DroppedFrameNoChange ==
  [][pc = "read" /\ ev'.frame.got
       /\ (ev'.frame.universe # ARTNET_UNIVERSE \/ ev'.frame.length < MOTOR_CHANNEL)
     => /\ UNCHANGED prog
        /\ ev'.writes = 0 /\ ev'.offs = 0 /\ ev'.starts = 0]_vars

C4_Witness ==
  /\ ev.step = "read" /\ ev.frame.got
  /\ ev.frame.universe # ARTNET_UNIVERSE /\ ev.frame.val > 0
  /\ motorRunning
  /\ zeroFrameCount > 0
  /\ USub(clock, lastDmxMillis) > 0

\* C5: whenever the motor is not running, the duty last written to the output
\* is 0 and currentPwm is 0.
C5_SafeOff == ~motorRunning => pwmOut = 0 /\ currentPwm = 0

C5_Witness ==
  /\ ~motorRunning
  /\ ev.offs = 1 /\ ev.pwmPre > 0
  /\ pwmOut = 0

\* C6: between the steps zeroFrameCount lies in 0 .. ZERO_FRAMES_TO_OFF - 1,
\* inside a handler it never exceeds ZERO_FRAMES_TO_OFF, and it is 0 after
\* every accepted nonzero frame and after every stop transition.
C6_ZeroStreakBounds ==
  /\ zeroFrameCount \in 0 .. ZERO_FRAMES_TO_OFF - 1
  /\ ev.zPeak <= ZERO_FRAMES_TO_OFF
  /\ ev.step = "read" /\ ForUs(ev.frame) /\ ev.frame.val > 0
       => zeroFrameCount = 0
  /\ ev.offs > 0 => zeroFrameCount = 0

\* the fifth zero frame in a row arrives while the motor is already off
C6_Witness ==
  /\ ~motorRunning
  /\ ev.step = "read" /\ ForUs(ev.frame) /\ ev.frame.val = 0
  /\ ev.offs = 0
  /\ ev.zfcPre = ZERO_FRAMES_TO_OFF - 1 /\ ev.zPeak = ZERO_FRAMES_TO_OFF
  /\ zeroFrameCount = 0

\* C7 as stated: every accepted frame either increments zeroFrameCount or
\* updates motorLevel, never both and never neither.
C7_ExactlyOneOriginal ==
  ev.step = "read" /\ ForUs(ev.frame)
    => (ev.zInc > 0 /\ ev.lvlSet = 0) \/ (ev.zInc = 0 /\ ev.lvlSet > 0)

\* C7 amended: an accepted frame with value 0 increments zeroFrameCount once,
\* and an accepted frame with value v > 0 sets motorLevel to v once without
\* incrementing; the only frame that does both is the zero frame that reaches
\* the threshold while the motor runs, whose stop transition sets motorLevel
\* to 0.
C7_ExactlyOneAmended ==
  [][AcceptedStep =>
       LET stopping == /\ motorRunning
                       /\ ev'.frame.val = 0
                       /\ zeroFrameCount + 1 >= ZERO_FRAMES_TO_OFF
       IN  IF ev'.frame.val = 0
           THEN /\ ev'.zInc = 1
                /\ ev'.lvlSet = IF stopping THEN 1 ELSE 0
                /\ stopping => motorLevel' = 0 /\ ev'.offs = 1
                /\ ~stopping => motorLevel' = motorLevel
           ELSE /\ ev'.zInc = 0
                /\ ev'.lvlSet = 1
                /\ motorLevel' = ev'.frame.val]_vars

C7_Witness ==
  /\ ev.step = "read" /\ ForUs(ev.frame) /\ ev.frame.val = 0
  /\ ev.zInc = 1 /\ ev.lvlSet = 1 /\ ev.offs = 1
  /\ motorLevel = 0

\* C8 as stated: motorLevel changes only while an accepted frame with v > 0
\* is handled.
C8_LevelOnlyByNonzeroOriginal ==
  [][motorLevel' # motorLevel => AcceptedStep /\ ev'.frame.val > 0]_vars

\* C8 amended: no sampler tick changes motorLevel; motorLevel changes only to
\* v while an accepted frame with v > 0 is handled, or to 0 in a stop
\* transition (the zero frame that reaches the threshold, or the watchdog).
C8_LevelOnlyByFrameOrStop ==
  [][/\ pc = "sample" => motorLevel' = motorLevel
     /\ motorLevel' # motorLevel =>
          \/ AcceptedStep /\ ev'.frame.val > 0 /\ motorLevel' = ev'.frame.val
          \/ /\ motorRunning /\ ~motorRunning' /\ ev'.offs = 1
             /\ motorLevel' = 0
             /\ pc \in {"read", "watchdog"}]_vars

C8_Witness ==
  /\ ev.step = "sample" /\ ev.due /\ ev.writes = 1
  /\ motorLevel = 255
  /\ currentPwm > 0

\* C9: motorRunning turns true only while an accepted frame with v > 0 is
\* handled; it turns false only while the zero frame that brings
\* zeroFrameCount to ZERO_FRAMES_TO_OFF is handled, or in the watchdog check
\* with now - lastDmxMillis >= DMX_TIMEOUT_MS.
C9_OnlySpecifiedTransitions ==
  [][/\ (~motorRunning /\ motorRunning') =>
          AcceptedStep /\ ev'.frame.val > 0
     /\ (motorRunning /\ ~motorRunning') =>
          \/ /\ AcceptedStep /\ ev'.frame.val = 0
             /\ zeroFrameCount + 1 = ZERO_FRAMES_TO_OFF
          \/ pc = "watchdog" /\ TimedOut(now')
     /\ pc \in {"sample", "delay"} => motorRunning' = motorRunning]_vars

\* the motor is started again by a nonzero frame that interrupts a zero streak
C9_Witness ==
  /\ ev.step = "read" /\ ev.starts = 1
  /\ ev.zfcPre > 0
  /\ iter > ZERO_FRAMES_TO_OFF
  /\ motorRunning

\* C10: an accepted zero frame whose increment leaves zeroFrameCount below
\* ZERO_FRAMES_TO_OFF changes zeroFrameCount (+1) and lastDmxMillis only, and
\* writes nothing to the output.
C10_AbsorbedZero ==
  [][AcceptedStep /\ ev'.frame.val = 0
       /\ zeroFrameCount + 1 < ZERO_FRAMES_TO_OFF
     => /\ zeroFrameCount' = zeroFrameCount + 1
        /\ lastDmxMillis' = clock
        /\ UNCHANGED <<motorRunning, motorLevel, currentPwm, pwmOut,
                       noisePos, lastSampleMillis>>
        /\ ev'.writes = 0]_vars

C10_Witness ==
  /\ ev.step = "read" /\ ForUs(ev.frame) /\ ev.frame.val = 0
  /\ motorRunning /\ currentPwm > 0
  /\ zeroFrameCount = ZERO_FRAMES_TO_OFF - 1
  /\ lastDmxMillis = clock

\* C11: an accepted nonzero frame v leaves the motor running with
\* motorLevel = v, zeroFrameCount = 0 and lastDmxMillis = the current time, and
\* writes no duty.  If the motor was stopped it also reseeds noisePos and sets
\* lastSampleMillis to the current time (startMotor); if the motor was running
\* it leaves noisePos and lastSampleMillis alone.
C11_StartTransition ==
  [][AcceptedStep /\ ev'.frame.val > 0
     => /\ motorRunning'
        /\ motorLevel' = ev'.frame.val
        /\ zeroFrameCount' = 0
        /\ lastDmxMillis' = clock
        /\ UNCHANGED <<currentPwm, pwmOut>>
        /\ ev'.writes = 0
        /\ IF motorRunning
           THEN ev'.starts = 0 /\ UNCHANGED <<noisePos, lastSampleMillis>>
           ELSE /\ ev'.starts = 1
                /\ noisePos' \in Seeds
                /\ lastSampleMillis' = clock]_vars

\* a nonzero frame reaches a motor that is running, whose noise position has
\* left its seed and whose last sample is in the past; it ends a zero streak
C11_Witness ==
  /\ ev.step = "read" /\ ForUs(ev.frame) /\ ev.frame.val > 0
  /\ ev.starts = 0 /\ motorRunning
  /\ motorLevel = ev.frame.val
  /\ ev.zfcPre > 0
  /\ noisePos \notin Seeds
  /\ lastSampleMillis # clock

\* C12: while the motor is stopped, every step other than an accepted nonzero
\* frame (accepted zero frame, dropped frame, no frame, timeout check, sampler,
\* delay) leaves motorRunning = false, motorLevel = 0, currentPwm = 0, the
\* output at duty 0, noisePos and lastSampleMillis unchanged, writes no duty
\* and stops nothing; only zeroFrameCount and lastDmxMillis may change.
C12_StoppedQuiescent ==
  [][~motorRunning /\ ~(AcceptedStep /\ ev'.frame.val > 0)
     => /\ ~motorRunning'
        /\ motorLevel' = 0 /\ currentPwm' = 0 /\ pwmOut' = 0
        /\ UNCHANGED <<motorLevel, currentPwm, pwmOut, noisePos,
                       lastSampleMillis>>
        /\ ev'.writes = 0 /\ ev'.offs = 0]_vars

\* the sampler's turn comes, a sample period after the last sample, for a
\* motor that has run, was stopped and has since received a zero frame
C12_Witness ==
  /\ ev.step = "sample" /\ ~motorRunning
  /\ gh.wrote /\ noisePos \notin Seeds \cup {0}
  /\ zeroFrameCount > 0
  /\ UGe(USub(now, lastSampleMillis), SAMPLE_INTERVAL_MS)
  /\ UGe(USub(now, lastDmxMillis), 1)

Min(a, b) == IF a <= b THEN a ELSE b

Max(a, b) == IF a >= b THEN a ELSE b

\* C13: for every currentPwm c and target t in 0..255 the duty written by the
\* smoothing step, round(0.28 * t + 0.72 * c) clamped to 0..255, lies between
\* min(c, t) and max(c, t); c = 100, t = 200 gives 128.
C13_NoOvershoot ==
  calc.fn = "smooth" /\ calc.done
  => /\ Min(calc.y, calc.x) <= calc.out
     /\ calc.out <= Max(calc.y, calc.x)
     /\ calc.y = 100 /\ calc.x = 200 => calc.out = 128

\* the smoothing has been applied to c = 100, t = 200
C13_Witness ==
  calc = [fn |-> "smooth", x |-> 200, y |-> 100, out |-> 128, done |-> TRUE]

\* round(a / b) for a >= 0, b > 0, halves up
Round(a, b) == (2 * a + b) \div (2 * b)

\* C14 as stated: for every level in 0..255 the effective amplitude equals
\* round(level / 255 * DEFAULT_AMPLITUDE).
C14_AmplitudeRoundedOriginal ==
  calc.fn = "amp" /\ calc.done
  => calc.out = Round(calc.x * DEFAULT_AMPLITUDE, 255)

\* C14 amended: for every level in 0..255 the effective amplitude is
\* level * DEFAULT_AMPLITUDE / 255 rounded down (the integer map), which is the
\* round-to-nearest value or one less; it is 0 for level 0, DEFAULT_AMPLITUDE
\* for level 255 and 115 for level 128.
C14_AmplitudeTruncated ==
  calc.fn = "amp" /\ calc.done
  => /\ 255 * calc.out <= calc.x * DEFAULT_AMPLITUDE
     /\ calc.x * DEFAULT_AMPLITUDE < 255 * (calc.out + 1)
     /\ calc.out \in {Round(calc.x * DEFAULT_AMPLITUDE, 255) - 1,
                      Round(calc.x * DEFAULT_AMPLITUDE, 255)}
     /\ calc.x = 0 => calc.out = 0
     /\ calc.x = 255 => calc.out = DEFAULT_AMPLITUDE
     /\ calc.x = 128 => calc.out = 115

\* level 1: 230 / 255 is 0.90, the integer map gives 0 where rounding gives 1
C14_Witness ==
  /\ calc.fn = "amp" /\ calc.done /\ calc.x = 1 /\ calc.out = 0
  /\ Round(calc.x * DEFAULT_AMPLITUDE, 255) = 1

\* C16 as stated: for every noise value n in 0..255 and effective amplitude a
\* in 0..DEFAULT_AMPLITUDE, target equals round(n * a / 255).
C16_TargetRoundedOriginal ==
  calc.fn = "target" /\ calc.done
  => calc.out = Round(calc.x * calc.y, 255)

\* C16 amended: for every n in 0..255 and a in 0..DEFAULT_AMPLITUDE, target is
\* n * a / 255 rounded down (integer division), which is the round-to-nearest
\* value or one less; it never exceeds a and equals a for n = 255.
C16_TargetTruncated ==
  calc.fn = "target" /\ calc.done
  => /\ 255 * calc.out <= calc.x * calc.y
     /\ calc.x * calc.y < 255 * (calc.out + 1)
     /\ calc.out \in {Round(calc.x * calc.y, 255) - 1,
                      Round(calc.x * calc.y, 255)}
     /\ calc.out \in 0 .. calc.y
     /\ calc.x = 255 => calc.out = calc.y

\* n = 128, a = 1: 128 / 255 is 0.50, integer division gives 0 where rounding
\* gives 1
C16_Witness ==
  /\ calc.fn = "target" /\ calc.done
  /\ calc.x = 128 /\ calc.y = 1 /\ calc.out = 0
  /\ Round(calc.x * calc.y, 255) = 1

\* C15: the sampler writes a duty only in its own step, only while the motor
\* runs and only when SAMPLE_INTERVAL_MS have passed since lastSampleMillis.
\* A sampler write is at least SAMPLE_INTERVAL_MS after the previous sampler
\* write and, for the first write after a start, after the start; it is a
\* single write, sets lastSampleMillis to the iteration's `now` and adds
\* NOISE_STEP_DEFAULT to noisePos modulo 2^32.  Without a write, the sampler
\* step changes neither.
C15_SamplerCadence ==
  [][pc = "sample"
     => /\ ev'.writes > 0
           => /\ motorRunning /\ motorRunning'
              /\ ev'.writes = 1 /\ ev'.offs = 0
              /\ gh.wrote => UGe(USub(now, gh.tWrite), SAMPLE_INTERVAL_MS)
              /\ gh.fresh => UGe(USub(now, gh.tStart), SAMPLE_INTERVAL_MS)
              /\ lastSampleMillis' = now
              /\ noisePos' = UAdd(noisePos, NOISE_STEP_DEFAULT)
        /\ ev'.writes = 0 => UNCHANGED <<noisePos, lastSampleMillis,
                                         currentPwm, pwmOut>>]_vars

\* the second sampler write after a start whose seed was 2^32 - 7: the noise
\* position has wrapped, and the write is a sample period after the first
C15_Witness ==
  /\ ev.step = "sample" /\ ev.writes = 1
  /\ gh.wrote /\ gh.tWrite = now /\ lastSampleMillis = now
  /\ noisePos = 2 * NOISE_STEP_DEFAULT - 7
  /\ motorRunning

\* C18: in every state between steps, motorRunning holds exactly when
\* motorLevel is in 1..255 and fails exactly when motorLevel is 0; a step that
\* starts the motor leaves zeroFrameCount at 0.
C18_LevelRunCoupling ==
  /\ motorLevel \in 0 .. 255
  /\ motorRunning <=> motorLevel \in 1 .. 255
  /\ ~motorRunning <=> motorLevel = 0
  /\ ev.starts > 0 => motorRunning /\ zeroFrameCount = 0

\* a motor that has run and was stopped is started again at level 5 by a
\* frame that ends a zero streak
C18_Witness ==
  /\ ev.step = "read" /\ ev.starts = 1
  /\ motorRunning /\ motorLevel = 5
  /\ gh.wrote /\ ev.zfcPre > 0 /\ zeroFrameCount = 0

\* C17: one loop iteration is the frame step (at most one frame, and frames
\* nowhere else), then the timeout check, then the sampler, then the delay.
\* From the step of an iteration that stops the motor (frame handler or
\* timeout check) to the end of that iteration the sampler does not fire,
\* nothing but the stop writes the output, which stays at duty 0, and
\* noisePos and lastSampleMillis do not change.
C17_StopBeforeSampler ==
  [][/\ pc = "read" => pc' = "watchdog"
     /\ pc = "watchdog" => pc' = "sample" /\ ev'.frame = NoFrame
     /\ pc = "sample" => pc' = "delay" /\ ev'.frame = NoFrame
     /\ pc = "delay" => pc' = "read" /\ ev'.frame = NoFrame
     /\ ev'.offs > 0 => pc \in {"read", "watchdog"} /\ gh'.stopIter
     /\ gh'.stopIter
        => /\ ~motorRunning'
           /\ pwmOut' = 0 /\ currentPwm' = 0
           /\ UNCHANGED <<noisePos, lastSampleMillis>>
           /\ ev'.writes = ev'.offs
           /\ pc = "sample" => ev'.writes = 0]_vars

\* the timeout check has stopped a motor that had sampled before, in an
\* iteration whose `now` is a sample period after the last sample; the sampler
\* step has passed without a write
C17_Witness ==
  /\ ev.step = "sample" /\ gh.stopIter
  /\ ev.writes = 0
  /\ gh.wrote /\ noisePos \notin Seeds \cup {0}
  /\ TimedOut(now)
  /\ UGe(USub(now, lastSampleMillis), SAMPLE_INTERVAL_MS)

\* C19: whatever the frames, levels, noise values and number of ticks, every
\* target is at most DEFAULT_AMPLITUDE and currentPwm and every duty written
\* lie in 0..DEFAULT_AMPLITUDE.
C19_DutyCeiling ==
  calc.fn = "duty"
  => /\ \A target \in Targets : target \in 0 .. DEFAULT_AMPLITUDE
     /\ calc.out \in 0 .. DEFAULT_AMPLITUDE

\* the largest target occurs, and ticks have raised the duty to within one of
\* the ceiling
C19_Witness ==
  /\ calc.fn = "duty"
  /\ DEFAULT_AMPLITUDE \in Targets
  /\ calc.out = DEFAULT_AMPLITUDE - 1

\* C20: in the UDP command sketch, whenever the timeout check of an iteration
\* is behind and the motor runs, less than TIMEOUT_MS lie between the last
\* single-byte packet (START, STOP or unknown byte) and the iteration's `now`.
\* Every single-byte packet sets lastCmdMillis to the current time; a packet
\* of any other length changes nothing.  A single-byte '0' or 0x00 stops the
\* motor at once, with duty 0; a single-byte '1' or 0x01 leaves it running.
C20_UdpAutoStop ==
  [][/\ pc' \in {"sample", "delay"} /\ motorRunning'
        => ~UGe(USub(now', gh'.tCmd), TIMEOUT_MS)
     /\ pc = "read" /\ ev'.pkt.size = 1 => lastCmdMillis' = clock
     /\ pc = "read" /\ ev'.pkt.size # 1
        => /\ UNCHANGED <<lastCmdMillis, motorRunning, currentPwm, pwmOut,
                          noisePos, lastSampleMillis>>
           /\ ev'.writes = 0
     /\ pc = "read" /\ ev'.pkt.size = 1 /\ ev'.pkt.b \in {48, 0}
        => ~motorRunning' /\ currentPwm' = 0 /\ pwmOut' = 0
     /\ pc = "read" /\ ev'.pkt.size = 1 /\ ev'.pkt.b \in {49, 1}
        => motorRunning'
     /\ pc = "read" /\ ev'.pkt.size = 1 /\ ev'.pkt.b \notin {48, 0, 49, 1}
        => UNCHANGED <<motorRunning, currentPwm, pwmOut>>]_vars

\* the motor still runs at the end of an iteration whose `now` is one
\* millisecond short of the timeout after the last single-byte packet, which
\* came after the first iterations
C20_Witness ==
  /\ pc = "delay" /\ motorRunning
  /\ USub(now, gh.tCmd) = TIMEOUT_MS - 1
  /\ lastCmdMillis = gh.tCmd
  /\ iter > 3

====
